---------------------------- MODULE Spec2Model ----------------------------
(***************************************************************************)
(* A model of the text-to-speech gateway of src/app.py: the pure text      *)
(* functions (clean_text, smart_chunk_text, get_voice_for_text) computed   *)
(* on sequences of characters, and the /generate-tts handler with its      *)
(* concurrent synthesis calls (asyncio tasks under a semaphore, gathered)  *)
(* and its post-processing thread pool.                                    *)
(*                                                                         *)
(* A text is a sequence of characters; a character is a one-character      *)
(* string, or a name ("E_ACUTE", "TA_KA", ...) for a code point outside    *)
(* printable ASCII.  An optional value (Python's None or a value) is a     *)
(* sequence of length 0 or 1.                                              *)
(***************************************************************************)
EXTENDS Integers, Sequences, FiniteSets, TLC

\* ------------------------------------------------------------ configuration

MAX_CONCURRENT_TTS == 15
MAX_CHUNK_LENGTH == 80
THREAD_POOL_SIZE == 8

\* ------------------------------------------------------------------- bounds

\* Requests handled at the same time.
NumReqs == 1
\* Backend synthesis calls that fail within one request.
MaxFailures == 1
\* Tokens an input text of the chunker is built from.
MaxTokens == 5
\* Pieces an input text of the normalizer is built from.
MaxPieces == 4

\* --------------------------------------------------------------- characters

CodePoint ==
    " " :> 32 @@ "!" :> 33 @@ "\"" :> 34 @@ "#" :> 35 @@ "$" :> 36 @@ "%" :> 37 @@
    "&" :> 38 @@ "'" :> 39 @@ "(" :> 40 @@ ")" :> 41 @@ "*" :> 42 @@ "+" :> 43 @@
    "," :> 44 @@ "-" :> 45 @@ "." :> 46 @@ "/" :> 47 @@ "0" :> 48 @@ "1" :> 49 @@
    "2" :> 50 @@ "3" :> 51 @@ "4" :> 52 @@ "5" :> 53 @@ "6" :> 54 @@ "7" :> 55 @@
    "8" :> 56 @@ "9" :> 57 @@ ":" :> 58 @@ ";" :> 59 @@ "<" :> 60 @@ "=" :> 61 @@
    ">" :> 62 @@ "?" :> 63 @@ "@" :> 64 @@ "A" :> 65 @@ "B" :> 66 @@ "C" :> 67 @@
    "D" :> 68 @@ "E" :> 69 @@ "F" :> 70 @@ "G" :> 71 @@ "H" :> 72 @@ "I" :> 73 @@
    "J" :> 74 @@ "K" :> 75 @@ "L" :> 76 @@ "M" :> 77 @@ "N" :> 78 @@ "O" :> 79 @@
    "P" :> 80 @@ "Q" :> 81 @@ "R" :> 82 @@ "S" :> 83 @@ "T" :> 84 @@ "U" :> 85 @@
    "V" :> 86 @@ "W" :> 87 @@ "X" :> 88 @@ "Y" :> 89 @@ "Z" :> 90 @@ "[" :> 91 @@
    "\\" :> 92 @@ "]" :> 93 @@ "^" :> 94 @@ "_" :> 95 @@ "BACKTICK" :> 96 @@ "a" :> 97 @@
    "b" :> 98 @@ "c" :> 99 @@ "d" :> 100 @@ "e" :> 101 @@ "f" :> 102 @@ "g" :> 103 @@
    "h" :> 104 @@ "i" :> 105 @@ "j" :> 106 @@ "k" :> 107 @@ "l" :> 108 @@ "m" :> 109 @@
    "n" :> 110 @@ "o" :> 111 @@ "p" :> 112 @@ "q" :> 113 @@ "r" :> 114 @@ "s" :> 115 @@
    "t" :> 116 @@ "u" :> 117 @@ "v" :> 118 @@ "w" :> 119 @@ "x" :> 120 @@ "y" :> 121 @@
    "z" :> 122 @@ "{" :> 123 @@ "|" :> 124 @@ "}" :> 125 @@ "~" :> 126 @@ "TAB" :> 9 @@
    "NL" :> 10 @@ "E_ACUTE" :> 233 @@ "COMB_ACUTE" :> 769 @@ "FW_LT" :> 65308 @@ "FW_GT" :> 65310 @@ "TA_KA" :> 2965 @@
    "DANDA" :> 2404 @@ "DOUBLE_DANDA" :> 2405
Chars == DOMAIN CodePoint

ord(c) == CodePoint[c]

\* str.isspace / \s, on the characters of the model.
Whitespace == {" ", "TAB", "NL"}

IsSpace(c) == c \in Whitespace

AsciiLetter(c) == (65 <= ord(c) /\ ord(c) <= 90) \/ (97 <= ord(c) /\ ord(c) <= 122)

AsciiDigit(c) == 48 <= ord(c) /\ ord(c) <= 57

\* The Tamil block U+0B80..U+0BFF.
TAMIL_RANGE == 2944 .. 3071

\* \w of a str pattern: alphanumeric (str.isalnum) or underscore.  A
\* combining mark (COMB_ACUTE) is not alphanumeric; a letter of any script is.
IsWordChar(c) ==
    AsciiLetter(c) \/ AsciiDigit(c) \/ c = "_" \/ c \in {"E_ACUTE", "TA_KA"}

\* One alternative of URL_PATTERN's repeated group matches c:
\* [a-zA-Z] | [0-9] | [$-_@.&+] | [!*\\(\\),] (the %XX alternative starts
\* with %, which the range $-_ holds already).
URLBodyChar(c) ==
    \/ AsciiLetter(c)
    \/ AsciiDigit(c)
    \/ (36 <= ord(c) /\ ord(c) <= 95)
    \/ c \in {"@", ".", "&", "+"}
    \/ c \in {"!", "*", "\\", "(", ")", ","}

URLBodyChars == {c \in Chars : URLBodyChar(c)}

\* ------------------------------------------------------- sequence helpers

Drop(t, n) == SubSeq(t, n + 1, Len(t))

StartsWithAt(t, i, p) ==
    /\ i + Len(p) - 1 <= Len(t)
    /\ \A k \in 1 .. Len(p) : t[i + k - 1] = p[k]

\* The greatest n with t[i] .. t[i+n-1] all in the character class: a greedy run.
RunLength(t, i, class) ==
    IF i > Len(t) THEN 0
    ELSE LET stop == CHOOSE j \in i .. Len(t) + 1 : j = Len(t) + 1 \/ t[j] \notin class
         IN  stop - i

\* str.strip(): from the first to the last character that is no whitespace.
strip(t) ==
    LET solid == {i \in 1 .. Len(t) : ~IsSpace(t[i])}
    IN  IF solid = {} THEN <<>>
        ELSE SubSeq(t, CHOOSE i \in solid : \A k \in solid : i <= k,
                       CHOOSE i \in solid : \A k \in solid : i >= k)

\* pattern.split(text) for a pattern [class]+ : the pieces between the maximal
\* runs of separator characters, empty pieces at the ends included.
re_split(t, sep) ==
    LET n == Len(t)
        \* where the runs of separators start, and where they end
        starts == SelectSeq([i \in 1 .. n |-> i],
                            LAMBDA i : t[i] \in sep /\ (i = 1 \/ t[i - 1] \notin sep))
        ends == SelectSeq([i \in 1 .. n |-> i],
                          LAMBDA i : t[i] \in sep /\ (i = n \/ t[i + 1] \notin sep))
    IN  [k \in 1 .. Len(starts) + 1 |->
            SubSeq(t,
                   IF k = 1 THEN 1 ELSE ends[k - 1] + 1,
                   IF k = Len(starts) + 1 THEN n ELSE starts[k] - 1)]

\* str.split(): the whitespace-separated words, no empty word.
str_split(t) == SelectSeq(re_split(t, Whitespace), LAMBDA w : w # <<>>)

RECURSIVE Concat(_)
Concat(ss) == IF ss = <<>> THEN <<>> ELSE Head(ss) \o Concat(Tail(ss))

\* sep.join(ss).
RECURSIVE Join(_, _)
Join(ss, sep) ==
    IF ss = <<>> THEN <<>>
    ELSE IF Len(ss) = 1 THEN ss[1]
    ELSE ss[1] \o sep \o Join(Tail(ss), sep)

\* n copies of the character c.
Rep(c, n) == [i \in 1 .. n |-> c]

\* --------------------------------------------------------------- clean_text

HTTP == <<"h", "t", "t", "p">>
SCHEME_SEP == <<":", "/", "/">>

\* The length of URL_PATTERN's match at position i, 0 when it does not match:
\* http, an optional s, ://, then one or more body characters, greedily.
URL_PATTERN_match(t, i) ==
    IF ~StartsWithAt(t, i, HTTP) THEN 0
    ELSE LET j == IF StartsWithAt(t, i + 4, <<"s">> \o SCHEME_SEP) THEN i + 5 ELSE i + 4
         IN  IF ~StartsWithAt(t, j, SCHEME_SEP) THEN 0
             ELSE LET n == RunLength(t, j + 3, URLBodyChars)
                  IN  IF n = 0 THEN 0 ELSE (j + 3 + n) - i

\* The length of TAG_PATTERN's match at position i: < , one or more
\* characters other than > , then > .
TAG_PATTERN_match(t, i) ==
    IF i > Len(t) \/ t[i] # "<" THEN 0
    ELSE LET n == RunLength(t, i + 1, Chars \ {">"})
         IN  IF n >= 1 /\ i + 1 + n <= Len(t) THEN n + 2 ELSE 0

\* URL_PATTERN.sub('', text): the leftmost, non-overlapping matches removed;
\* the scan goes from one match to the next.
RECURSIVE URL_PATTERN_sub_from(_, _)
URL_PATTERN_sub_from(t, i) ==
    IF \A j \in i .. Len(t) : URL_PATTERN_match(t, j) = 0 THEN SubSeq(t, i, Len(t))
    ELSE LET j == CHOOSE j \in i .. Len(t) :
                      /\ URL_PATTERN_match(t, j) > 0
                      /\ \A k \in i .. j - 1 : URL_PATTERN_match(t, k) = 0
         IN  SubSeq(t, i, j - 1) \o URL_PATTERN_sub_from(t, j + URL_PATTERN_match(t, j))

URL_PATTERN_sub(t) == URL_PATTERN_sub_from(t, 1)

\* TAG_PATTERN.sub('', text).
RECURSIVE TAG_PATTERN_sub_from(_, _)
TAG_PATTERN_sub_from(t, i) ==
    IF \A j \in i .. Len(t) : TAG_PATTERN_match(t, j) = 0 THEN SubSeq(t, i, Len(t))
    ELSE LET j == CHOOSE j \in i .. Len(t) :
                      /\ TAG_PATTERN_match(t, j) > 0
                      /\ \A k \in i .. j - 1 : TAG_PATTERN_match(t, k) = 0
         IN  SubSeq(t, i, j - 1) \o TAG_PATTERN_sub_from(t, j + TAG_PATTERN_match(t, j))

TAG_PATTERN_sub(t) == TAG_PATTERN_sub_from(t, 1)

\* The character references of html.entities.html5 that the modelled texts
\* can spell, with and without the closing semicolon (the texts spell no
\* numeric reference: no piece of them holds #).
html5 ==
    (<<"l", "t", ";">> :> "<") @@ (<<"l", "t">> :> "<") @@
    (<<"g", "t", ";">> :> ">") @@ (<<"g", "t">> :> ">") @@
    (<<"a", "m", "p", ";">> :> "&") @@ (<<"a", "m", "p">> :> "&")

\* A character of a named reference: [^\t\n\f <&#;].
CharrefNameChars == Chars \ {"TAB", "NL", " ", "<", "&", "#", ";"}

Min(a, b) == IF a <= b THEN a ELSE b

\* html._replace_charref for a named reference s (the text after &): the
\* reference's character, or the longest known prefix replaced, or & and s.
RECURSIVE replace_prefix(_, _)
replace_prefix(s, x) ==
    IF x < 2 THEN <<"&">> \o s
    ELSE IF SubSeq(s, 1, x) \in DOMAIN html5
         THEN <<html5[SubSeq(s, 1, x)]>> \o Drop(s, x)
         ELSE replace_prefix(s, x - 1)

replace_charref(s) ==
    IF s \in DOMAIN html5 THEN <<html5[s]>> ELSE replace_prefix(s, Len(s) - 1)

\* html.unescape: every &name or &name; (name of 1..32 characters) replaced,
\* left to right; the replacement is not scanned again.
RECURSIVE unescape_from(_, _)
unescape_from(t, i) ==
    IF \A j \in i .. Len(t) : t[j] # "&" THEN SubSeq(t, i, Len(t))
    ELSE LET a == i + RunLength(t, i, Chars \ {"&"})
             n == Min(32, RunLength(t, a + 1, CharrefNameChars))
             semi == IF n > 0 /\ a + n + 1 <= Len(t) /\ t[a + n + 1] = ";" THEN 1 ELSE 0
         IN  SubSeq(t, i, a - 1)
                 \o (IF n = 0 THEN <<"&">> ELSE replace_charref(SubSeq(t, a + 1, a + n + semi)))
                 \o unescape_from(t, a + n + semi + 1)

html_unescape(t) == IF "&" \in {t[i] : i \in DOMAIN t} THEN unescape_from(t, 1) ELSE t

\* BRACKET_PATTERN: [\[\]{}()].
BRACKET_PATTERN(c) == c \in {"[", "]", "{", "}", "(", ")"}

\* BRACKET_PATTERN.sub('', text).
BRACKET_PATTERN_sub(t) == SelectSeq(t, LAMBDA c : ~BRACKET_PATTERN(c))

\* The compatibility decomposition of one character.
Decomposition(c) ==
    CASE c = "E_ACUTE" -> <<"e", "COMB_ACUTE">>
      [] c = "FW_LT" -> <<"<">>
      [] c = "FW_GT" -> <<">">>
      [] OTHER -> <<c>>

\* unicodedata.normalize('NFKD', text).  The modelled characters hold one
\* combining class only, so the canonical reordering moves nothing.
RECURSIVE NFKD(_)
NFKD(t) ==
    IF \A i \in DOMAIN t : Decomposition(t[i]) = <<t[i]>> THEN t
    ELSE LET i == CHOOSE i \in DOMAIN t :
                      /\ Decomposition(t[i]) # <<t[i]>>
                      /\ \A k \in 1 .. i - 1 : Decomposition(t[k]) = <<t[k]>>
         IN  SubSeq(t, 1, i - 1) \o Decomposition(t[i]) \o NFKD(Drop(t, i))

\* A variant of SPECIAL_CHAR_PATTERN whose class of kept characters also
\* holds the angle brackets.
SPECIAL_CHAR_PATTERN_keeping_angles(c) ==
    ~ \/ IsWordChar(c)
      \/ IsSpace(c)
      \/ ord(c) \in TAMIL_RANGE
      \/ c \in {".", ",", "!", "?", ";", ":", "-", "'", "\"", "DANDA", "DOUBLE_DANDA",
                "<", ">"}

\* SPECIAL_CHAR_PATTERN matches c: [^\w\s\u0B80-\u0BFF.,!?;:\-\'"] with the danda and the double danda.
SPECIAL_CHAR_PATTERN(c) ==
    ~ \/ IsWordChar(c)
      \/ IsSpace(c)
      \/ ord(c) \in TAMIL_RANGE
      \/ c \in {".", ",", "!", "?", ";", ":", "-", "'", "\"", "DANDA", "DOUBLE_DANDA"}

\* WHITESPACE_PATTERN.sub(' ', text): each run of whitespace becomes one space.
WHITESPACE_PATTERN_sub(t) ==
    LET \* the positions that do not continue a run of whitespace
        first == SelectSeq([i \in 1 .. Len(t) |-> i],
                           LAMBDA i : ~IsSpace(t[i]) \/ i = 1 \/ ~IsSpace(t[i - 1]))
    IN  [k \in DOMAIN first |-> IF IsSpace(t[first[k]]) THEN " " ELSE t[first[k]]]

KeepFiltered(c) == ~SPECIAL_CHAR_PATTERN(c)

special_char_sub(t) == SelectSeq(t, KeepFiltered)

clean_text(text) ==
    LET t1 == URL_PATTERN_sub(text)
        t2 == TAG_PATTERN_sub(t1)
        t3 == html_unescape(t2)
        t4 == BRACKET_PATTERN_sub(t3)
        t5 == NFKD(t4)
        t6 == special_char_sub(t5)
        t7 == WHITESPACE_PATTERN_sub(t6)
    IN  strip(t7)

\* --------------------------------------------------------- smart_chunk_text

\* SENTENCE_PATTERN: [.!?]+ ; SUB_PATTERN: [,;]+ .
SENTENCE_PATTERN == {".", "!", "?"}

SUB_PATTERN == {",", ";"}

\* A variant of PartFits that forgets the two characters of the separator.
PartFits_without_separator(current_chunk, part) ==
    Len(current_chunk) + Len(part) <= MAX_CHUNK_LENGTH

\* Line 143: the next sub-part still fits the accumulator, separator counted.
PartFits(current_chunk, part) ==
    Len(current_chunk) + Len(part) + 2 <= MAX_CHUNK_LENGTH

\* Line 154: the next word still fits the accumulator, space counted.
WordFits(current_chunk, word) ==
    Len(current_chunk) + Len(word) + 1 <= MAX_CHUNK_LENGTH

\* A variant of FlushBeforeWord that starts the new accumulator without
\* emitting the old one.
FlushBeforeWord_dropping(chunks, current_chunk) == chunks

\* Lines 157-158: the accumulator is flushed before the word that overflows it.
FlushBeforeWord(chunks, current_chunk) ==
    IF current_chunk # <<>> THEN Append(chunks, current_chunk) ELSE chunks

\* Lines 151-159: word-level packing of one sub-part; the state is
\* <<current_chunk, chunks>>.
RECURSIVE WordLoop(_, _, _, _)
WordLoop(words, k, current_chunk, chunks) ==
    IF k > Len(words) THEN <<current_chunk, chunks>>
    ELSE IF WordFits(current_chunk, words[k])
         THEN WordLoop(words, k + 1,
                       current_chunk
                           \o (IF current_chunk # <<>> THEN <<" ">> ELSE <<>>)
                           \o words[k],
                       chunks)
         ELSE WordLoop(words, k + 1, words[k], FlushBeforeWord(chunks, current_chunk))

\* Lines 138-161: packing of the sub-parts of one long sentence.
RECURSIVE PartLoop(_, _, _, _)
PartLoop(sub_parts, k, current_chunk, chunks) ==
    IF k > Len(sub_parts) THEN <<current_chunk, chunks>>
    ELSE LET part == strip(sub_parts[k])
         IN  IF part = <<>> THEN PartLoop(sub_parts, k + 1, current_chunk, chunks)
             ELSE IF PartFits(current_chunk, part)
             THEN PartLoop(sub_parts, k + 1,
                           current_chunk
                               \o (IF current_chunk # <<>> THEN <<",", " ">> ELSE <<>>)
                               \o part,
                           chunks)
             ELSE LET flushed == IF current_chunk # <<>>
                                 THEN Append(chunks, current_chunk) ELSE chunks
                  IN  IF Len(part) > MAX_CHUNK_LENGTH
                      THEN LET s == WordLoop(str_split(part), 1, <<>>, flushed)
                           IN  PartLoop(sub_parts, k + 1, s[1], s[2])
                      ELSE PartLoop(sub_parts, k + 1, part, flushed)

\* Lines 125-164: one pass over the sentences.
RECURSIVE SentenceLoop(_, _, _)
SentenceLoop(sentences, k, chunks) ==
    IF k > Len(sentences) THEN chunks
    ELSE LET sentence == strip(sentences[k])
         IN  IF sentence = <<>> THEN SentenceLoop(sentences, k + 1, chunks)
             ELSE IF Len(sentence) <= MAX_CHUNK_LENGTH
             THEN SentenceLoop(sentences, k + 1, Append(chunks, sentence))
             ELSE LET s == PartLoop(re_split(sentence, SUB_PATTERN), 1, <<>>, chunks)
                  IN  SentenceLoop(sentences, k + 1,
                                   IF s[1] # <<>> THEN Append(s[2], s[1]) ELSE s[2])

smart_chunk_text(text) == SentenceLoop(re_split(text, SENTENCE_PATTERN), 1, <<>>)

\* ------------------------------------------------------- get_voice_for_text

VOICE_MAPPINGS ==
    (<<"e", "n">> :> "en-US-JennyNeural") @@ (<<"t", "a">> :> "ta-IN-PallaviNeural") @@
    (<<"h", "i">> :> "hi-IN-SwaraNeural") @@ (<<"m", "l">> :> "ml-IN-SobhanaNeural") @@
    (<<"k", "n">> :> "kn-IN-SapnaNeural") @@ (<<"t", "e">> :> "te-IN-ShrutiNeural") @@
    (<<"b", "n">> :> "bn-IN-TanishaaNeural") @@ (<<"m", "r">> :> "mr-IN-AarohiNeural") @@
    (<<"g", "u">> :> "gu-IN-DhwaniNeural") @@ (<<"p", "a">> :> "pa-IN-SandeepNeural") @@
    (<<"u", "r">> :> "ur-IN-GulNeural") @@ (<<"f", "r">> :> "fr-FR-DeniseNeural") @@
    (<<"d", "e">> :> "de-DE-KatjaNeural") @@ (<<"e", "s">> :> "es-ES-ElviraNeural") @@
    (<<"i", "t">> :> "it-IT-ElsaNeural") @@ (<<"r", "u">> :> "ru-RU-SvetlanaNeural") @@
    (<<"j", "a">> :> "ja-JP-NanamiNeural") @@ (<<"k", "o">> :> "ko-KR-SunHiNeural") @@
    (<<"z", "h">> :> "zh-CN-XiaoxiaoNeural") @@ (<<"a", "r">> :> "ar-SA-ZariyahNeural") @@
    (<<"p", "t">> :> "pt-BR-FranciscaNeural") @@ (<<"n", "l">> :> "nl-NL-ColetteNeural") @@
    (<<"e", "l">> :> "el-GR-AthinaNeural") @@ (<<"h", "e">> :> "he-IL-HilaNeural") @@
    (<<"t", "r">> :> "tr-TR-EmelNeural") @@ (<<"p", "l">> :> "pl-PL-ZofiaNeural") @@
    (<<"t", "h">> :> "th-TH-PremwadeeNeural") @@ (<<"v", "i">> :> "vi-VN-HoaiMyNeural") @@
    (<<"s", "v">> :> "sv-SE-SofieNeural") @@ (<<"f", "i">> :> "fi-FI-NooraNeural") @@
    (<<"c", "s">> :> "cs-CZ-VlastaNeural") @@ (<<"h", "u">> :> "hu-HU-NoemiNeural")

detect_tamil_content(text) == \E i \in DOMAIN text : ord(text[i]) \in TAMIL_RANGE

\* str.lower() on one character.
LowerChar(c) ==
    IF 65 <= ord(c) /\ ord(c) <= 90
    THEN CHOOSE d \in Chars : ord(d) = ord(c) + 32
    ELSE c

lower(s) == [i \in DOMAIN s |-> LowerChar(s[i])]

\* Python's truth value of an optional text: None and the empty text are false.
Truthy(opt) == opt # <<>> /\ opt[1] # <<>>

\* The same for an optional voice identifier, an opaque string.
TruthyId(opt) == opt # <<>> /\ opt[1] # ""

\* Line 179: the explicit voice wins when it is given.
VoiceGiven(voice) == TruthyId(voice)

\* A variant of TamilDetected that looks at the first character only.
TamilDetected_first_only(text) == text # <<>> /\ ord(text[1]) \in TAMIL_RANGE

\* Line 183: the Tamil voice is chosen for text with Tamil characters.
TamilDetected(text) == detect_tamil_content(text)

\* text: a text; language: an optional text; voice: an optional identifier.
get_voice_for_text(text, language, voice) ==
    IF VoiceGiven(voice) THEN voice[1]
    ELSE IF TamilDetected(text) THEN VOICE_MAPPINGS[<<"t", "a">>]
    ELSE LET lang_code == IF Truthy(language) THEN lower(language[1]) ELSE <<"e", "n">>
         IN  IF lang_code \in DOMAIN VOICE_MAPPINGS
             THEN VOICE_MAPPINGS[lang_code]
             ELSE VOICE_MAPPINGS[<<"e", "n">>]

\* ------------------------------------ the pure functions and their inputs

VARIABLES
    fn,       \* the function applied: its name, "" in the handler's runs
    in,       \* its argument(s)
    out,      \* its result
    out2,     \* clean_text applied to its own result
    called    \* how many applications have been made

fvars == <<fn, in, out, out2, called>>

\* The texts spelt with at most n pieces of the sequence pieces.
TextsOf(pieces, n) ==
    UNION { { Concat([i \in 1 .. k |-> pieces[s[i]]]) : s \in [1 .. k -> 1 .. Len(pieces)] } :
            k \in 0 .. n }

\* Raw texts for clean_text: the parts of a URL, of a tag and of a character
\* reference, a bracket, a space, and a character that decomposes.
CleanPieces ==
    << <<"h", "t">>, <<"t", "p", ":", "/", "/">>, <<"a">>, <<" ">>, <<"<">>, <<">">>,
       <<"&", "l", "t", ";">>, <<"(">>, <<"E_ACUTE">> >>

CleanInputs(n) == TextsOf(CleanPieces, n)

\* Texts for smart_chunk_text: words of 40 characters and of 1 character
\* (unseparated, they spell longer words), a space, a comma and a sentence
\* terminator.
ChunkTokens ==
    << Rep("b", 40), <<"c">>, <<" ">>, <<",">>, <<"!">> >>

\* A normalized text is a text that clean_text returns.
IsNormalized(t) == clean_text(t) = t

ChunkInputs(n) == { t \in TextsOf(ChunkTokens, n) : IsNormalized(t) }

VoiceTexts == { <<>>, <<"h", "i">>, <<"TA_KA">>, <<"h", "i", " ", "TA_KA">> }

VoiceLanguages ==
    { <<>>, << <<>> >>, << <<"e", "n">> >>, << <<"t", "a">> >>, << <<"f", "r">> >>,
      << <<"F", "R">> >>, << <<"H", "i">> >>, << <<"x", "x">> >> }

VoiceOverrides == { <<>>, <<"">>, <<"de-DE-KatjaNeural">>, <<"my-voice">> }

\* ------------------------------------------------------ the request handler

VARIABLES
    body,           \* per request: the JSON body, [text, language, voice], each optional
    pc,             \* per request: where generate_tts stands
    response,       \* per request: [status, audio]; status 0 while none is sent
    cleaned_text,   \* per request: clean_text's result
    selected_voice, \* per request: the voice of all its chunks
    chunks,         \* per request: smart_chunk_text's result
    semaphore,      \* per request: the value of the semaphore of its generate_all_chunks call
    task,           \* per request: the state of each generate_audio_chunk task
    taskResult,     \* per request: each task's returned audio or raised exception,
                    \* <<>> while it has neither
    failures,       \* per request: the synthesis calls that have failed
    outOfOrder,     \* per request: a call completed while one made before it was pending
    audio_chunks,   \* per request: what generate_all_chunks returned
    job,            \* per request: the state of each process_audio_segment call
    segment,        \* per request: each call's processed segment, <<>> while it has none
    exported,       \* per request: "no", "ok" or "failed"
    submitted,      \* per request: the backend calls begun, in order: <<task, text>>
    jobOutOfOrder,  \* per request: a process_audio_segment call returned or raised
                    \* while one for an earlier chunk had not
    tempFiles,      \* the temporary files that exist: <<request, chunk index>>
    outputDir       \* the files of AUDIO_OUTPUT_DIR: [name, content]

hvars ==
    <<body, pc, response, cleaned_text, selected_voice, chunks, semaphore, task,
      taskResult, failures, outOfOrder, audio_chunks, job, segment, exported,
      submitted, jobOutOfOrder, tempFiles, outputDir>>

vars == <<fvars, hvars>>

\* The requests in progress.
Requests == DOMAIN pc

\* What the backend streams for a chunk: edge_tts.Communicate(text, voice).
Synthesize(text, voice) == <<"mp3", voice, text>>

\* What a failed backend call raises.
SynthesisError == <<"exception">>

\* A variant of TaskText in which every task reads the loop variable after
\* the loop has ended.
TaskText_late_binding(chunk_list, i) == chunk_list[Len(chunk_list)]

\* Lines 213-216: the text handed to the i-th task.
TaskText(chunk_list, i) == chunk_list[i]

\* A variant of SemaphoreValue with one permit too many.
SemaphoreValue_one_more == MAX_CONCURRENT_TTS + 1

\* Line 211: the permits of the semaphore.
SemaphoreValue == MAX_CONCURRENT_TTS

\* Line 196, on the first pass of the event loop: the tasks run in the order
\* they were made, and each takes a permit while one is left.
FirstPass(n, permits) ==
    [i \in 1 .. n |-> IF i <= permits THEN "streaming" ELSE "waiting"]

\* Line 218: gather's result holds the tasks' results in the order of the tasks.
GatherResults(results) == [i \in 1 .. Len(results) |-> results[i][1]]

\* A variant of GatherReturns that takes a raised exception for a result,
\* as gather does with return_exceptions=True.
GatherReturns_with_exceptions(states) ==
    \A i \in DOMAIN states : states[i] \in {"done", "failed"}

\* Line 218: gather returns once every task has returned.
GatherReturns(states) == \A i \in DOMAIN states : states[i] = "done"

\* Line 218: gather raises the first exception of a task.
GatherRaises(states) == \E i \in DOMAIN states : states[i] = "failed"

\* Lines 230-242: decoding, normalization and silence stripping of one chunk.
process_audio_segment(audio_data) == <<"segment", audio_data>>

\* Line 261.
pause == <<"silence", "200ms">>

\* A variant of PauseAfter that follows every segment with a pause.
PauseAfter_always(i, n) == TRUE

\* Line 266: a pause follows every segment but the last.
PauseAfter(i, n) == i < n

\* Lines 263-267.
RECURSIVE CombineLoop(_, _, _)
CombineLoop(segments, i, combined) ==
    IF i > Len(segments) THEN combined
    ELSE CombineLoop(segments, i + 1,
                     combined \o <<segments[i]>>
                         \o (IF PauseAfter(i, Len(segments)) THEN <<pause>> ELSE <<>>))

\* Lines 270-276.
compress_dynamic_range(combined) == <<"compressed", combined>>

\* A variant of MapResults that reads the segments from the last chunk to
\* the first.
MapResults_reversed(segs) == Concat([i \in 1 .. Len(segs) |-> segs[Len(segs) + 1 - i]])

\* Line 256: the segments that the calls returned, in the order of the chunks.
MapResults(segs) == Concat(segs)

\* Lines 256-287: the file that combine_audio_segments exports.

ArtifactOf(segs) == compress_dynamic_range(CombineLoop(MapResults(segs), 1, <<>>))

\* Line 279: a fresh uuid4 per call; no two calls share one.
OutputName(r) == <<"uuid4", r>>

Running(states) == Cardinality({i \in DOMAIN states : states[i] = "running"})

InFlight(r) == Cardinality({i \in DOMAIN task[r] : task[r][i] = "streaming"})

NoResponse == [status |-> 0, audio |-> <<>>]

ErrorResponse(code) == [status |-> code, audio |-> <<>>]

\* A variant of MissingText that tests the text before trimming it.
MissingText_untrimmed(data) == data.text = <<>> \/ data.text[1] = <<>>

\* Lines 377-382: the body has no text, or its text is empty once trimmed.
MissingText(data) == data.text = <<>> \/ strip(data.text[1]) = <<>>

\* Lines 374-403: validation, clean_text, voice selection, chunking, and the
\* new event loop.
generate_tts_begin(r) ==
    /\ pc[r] = "received"
    /\ IF MissingText(body[r])
       THEN /\ response' = [response EXCEPT ![r] = ErrorResponse(400)]
            /\ pc' = [pc EXCEPT ![r] = "done"]
            /\ UNCHANGED <<cleaned_text, selected_voice, chunks>>
       ELSE LET cleaned == clean_text(strip(body[r].text[1]))
            IN  /\ cleaned_text' = [cleaned_text EXCEPT ![r] = cleaned]
                /\ selected_voice' = [selected_voice EXCEPT ![r] =
                       get_voice_for_text(cleaned, body[r].language, body[r].voice)]
                /\ chunks' = [chunks EXCEPT ![r] = smart_chunk_text(cleaned)]
                /\ pc' = [pc EXCEPT ![r] = "loop"]
                /\ UNCHANGED response
    /\ UNCHANGED <<body, semaphore, task, taskResult, failures, outOfOrder,
                   audio_chunks, job, segment, exported, tempFiles, outputDir,
                   submitted, jobOutOfOrder, fvars>>

\* Lines 207-218 and the first pass of the event loop over the new tasks
\* (line 196): the semaphore is made, one task per chunk is made, and the
\* tasks take the permits in order; the rest wait.
generate_all_chunks(r) ==
    /\ pc[r] = "loop"
    /\ LET n == Len(chunks[r])
       IN  /\ task' = [task EXCEPT ![r] = FirstPass(n, SemaphoreValue)]
           /\ semaphore' = [semaphore EXCEPT ![r] = SemaphoreValue - Min(n, SemaphoreValue)]
           /\ taskResult' = [taskResult EXCEPT ![r] = [i \in 1 .. n |-> <<>>]]
           /\ submitted' = [submitted EXCEPT ![r] =
                  [i \in 1 .. Min(n, SemaphoreValue) |-> <<i, TaskText(chunks[r], i)>>]]
    /\ pc' = [pc EXCEPT ![r] = "gather"]
    /\ UNCHANGED <<body, response, cleaned_text, selected_voice, chunks, failures,
                   outOfOrder, audio_chunks, job, segment, exported, tempFiles,
                   outputDir, jobOutOfOrder, fvars>>

\* Lines 196-197: the longest-waiting task is woken by a release, takes the
\* permit and begins its backend call.
AcquireSlot(r, i) ==
    /\ pc[r] = "gather"
    /\ task[r][i] = "waiting"
    /\ \A j \in 1 .. i - 1 : task[r][j] # "waiting"
    /\ semaphore[r] > 0
    /\ task' = [task EXCEPT ![r][i] = "streaming"]
    /\ semaphore' = [semaphore EXCEPT ![r] = @ - 1]
    /\ submitted' = [submitted EXCEPT ![r] = Append(@, <<i, TaskText(chunks[r], i)>>)]
    /\ UNCHANGED <<body, pc, response, cleaned_text, selected_voice, chunks, taskResult,
                   failures, outOfOrder, audio_chunks, job, segment, exported,
                   tempFiles, outputDir, jobOutOfOrder, fvars>>

\* A variant of StreamOk that returns the audio from inside the async with
\* block without leaving it: the permit is kept.
StreamOk_keeping_permit(r, i) ==
    /\ pc[r] = "gather"
    /\ task[r][i] = "streaming"
    /\ task' = [task EXCEPT ![r][i] = "done"]
    /\ taskResult' = [taskResult EXCEPT ![r][i] =
           <<Synthesize(TaskText(chunks[r], i), selected_voice[r])>>]
    /\ outOfOrder' = [outOfOrder EXCEPT ![r] =
           @ \/ \E j \in 1 .. i - 1 : task[r][j] \in {"waiting", "streaming"}]
    /\ UNCHANGED <<body, pc, response, cleaned_text, selected_voice, chunks, semaphore,
                   failures, audio_chunks, job, segment, exported, tempFiles, outputDir,
                   submitted, jobOutOfOrder, fvars>>

\* Lines 197-204: the stream ends, the task returns its audio and releases
\* its permit.
StreamOk(r, i) ==
    /\ pc[r] = "gather"
    /\ task[r][i] = "streaming"
    /\ task' = [task EXCEPT ![r][i] = "done"]
    /\ taskResult' = [taskResult EXCEPT ![r][i] =
           <<Synthesize(TaskText(chunks[r], i), selected_voice[r])>>]
    /\ semaphore' = [semaphore EXCEPT ![r] = @ + 1]
    /\ outOfOrder' = [outOfOrder EXCEPT ![r] =
           @ \/ \E j \in 1 .. i - 1 : task[r][j] \in {"waiting", "streaming"}]
    /\ UNCHANGED <<body, pc, response, cleaned_text, selected_voice, chunks, failures,
                   audio_chunks, job, segment, exported, tempFiles, outputDir,
                   submitted, jobOutOfOrder, fvars>>

\* A variant of StreamFail that catches the exception and calls the backend
\* again for the same chunk, keeping the permit.
StreamFail_retrying(r, i) ==
    /\ pc[r] = "gather"
    /\ task[r][i] = "streaming"
    /\ failures[r] < MaxFailures
    /\ failures' = [failures EXCEPT ![r] = @ + 1]
    /\ submitted' = [submitted EXCEPT ![r] = Append(@, <<i, TaskText(chunks[r], i)>>)]
    /\ UNCHANGED <<body, pc, response, cleaned_text, selected_voice, chunks, semaphore,
                   task, taskResult, outOfOrder, audio_chunks, job, segment, exported,
                   tempFiles, outputDir, jobOutOfOrder, fvars>>

\* Lines 197-200: the backend call raises; the exception leaves the
\* async with block, which releases the permit.
StreamFail(r, i) ==
    /\ pc[r] = "gather"
    /\ task[r][i] = "streaming"
    /\ failures[r] < MaxFailures
    /\ task' = [task EXCEPT ![r][i] = "failed"]
    /\ taskResult' = [taskResult EXCEPT ![r][i] = <<SynthesisError>>]
    /\ failures' = [failures EXCEPT ![r] = @ + 1]
    /\ semaphore' = [semaphore EXCEPT ![r] = @ + 1]
    /\ UNCHANGED <<body, pc, response, cleaned_text, selected_voice, chunks,
                   outOfOrder, audio_chunks, job, segment, exported, tempFiles,
                   outputDir,
                   submitted, jobOutOfOrder, fvars>>

\* A variant of gather_return that returns at the first result, as
\* asyncio.wait does with FIRST_COMPLETED.
gather_return_at_first_result(r) ==
    /\ pc[r] = "gather"
    /\ \E i \in DOMAIN task[r] : task[r][i] = "done"
    /\ audio_chunks' = [audio_chunks EXCEPT ![r] = Concat(taskResult[r])]
    /\ job' = [job EXCEPT ![r] = [i \in DOMAIN task[r] |-> "queued"]]
    /\ segment' = [segment EXCEPT ![r] = [i \in DOMAIN task[r] |-> <<>>]]
    /\ pc' = [pc EXCEPT ![r] = "postprocess"]
    /\ UNCHANGED <<body, response, cleaned_text, selected_voice, chunks, semaphore, task,
                   taskResult, failures, outOfOrder, exported, tempFiles, outputDir,
                   submitted, jobOutOfOrder, fvars>>

\* Lines 218 and 405-415: every task has returned; gather returns their
\* results, the loop is closed, and combine_audio_segments submits one
\* process_audio_segment call per chunk to the pool (line 256).
gather_return(r) ==
    /\ pc[r] = "gather"
    /\ GatherReturns(task[r])
    /\ audio_chunks' = [audio_chunks EXCEPT ![r] = GatherResults(taskResult[r])]
    /\ job' = [job EXCEPT ![r] = [i \in DOMAIN task[r] |-> "queued"]]
    /\ segment' = [segment EXCEPT ![r] = [i \in DOMAIN task[r] |-> <<>>]]
    /\ pc' = [pc EXCEPT ![r] = "postprocess"]
    /\ UNCHANGED <<body, response, cleaned_text, selected_voice, chunks, semaphore, task,
                   taskResult, failures, outOfOrder, exported, tempFiles, outputDir, submitted,
                   jobOutOfOrder, fvars>>

\* Lines 218, 405-410 and 425-429: a task has raised; gather raises at once,
\* run_until_complete raises, the loop is closed with the other tasks left
\* as they are, and the handler answers 500.
gather_raise(r) ==
    /\ pc[r] = "gather"
    /\ GatherRaises(task[r])
    /\ response' = [response EXCEPT ![r] = ErrorResponse(500)]
    /\ pc' = [pc EXCEPT ![r] = "done"]
    /\ UNCHANGED <<body, cleaned_text, selected_voice, chunks, semaphore, task,
                   taskResult, failures, outOfOrder, audio_chunks, job, segment,
                   exported, tempFiles, outputDir,
                   submitted, jobOutOfOrder, fvars>>

\* Lines 226-228, on a free worker of the pool (line 255): the next queued
\* call starts and writes its chunk to a temporary file.
WorkerStart(r, i) ==
    /\ pc[r] = "postprocess"
    /\ job[r][i] = "queued"
    /\ \A j \in 1 .. i - 1 : job[r][j] # "queued"
    /\ Running(job[r]) < THREAD_POOL_SIZE
    /\ job' = [job EXCEPT ![r][i] = "running"]
    /\ tempFiles' = tempFiles \cup {<<r, i>>}
    /\ UNCHANGED <<body, pc, response, cleaned_text, selected_voice, chunks, semaphore,
                   task, taskResult, failures, outOfOrder, audio_chunks, segment,
                   exported, outputDir,
                   submitted, jobOutOfOrder, fvars>>

\* The call for chunk i ends while the call for an earlier chunk has not.
EarlierUnfinished(states, i) ==
    \E j \in 1 .. i - 1 : states[j] \in {"queued", "running"}

\* Lines 230-244: the chunk is decoded, normalized and stripped; the
\* temporary file is removed.
WorkerOk(r, i) ==
    /\ pc[r] \in {"postprocess", "shutdown"}
    /\ job[r][i] = "running"
    /\ job' = [job EXCEPT ![r][i] = "ok"]
    /\ segment' = [segment EXCEPT ![r][i] = <<process_audio_segment(audio_chunks[r][i])>>]
    /\ tempFiles' = tempFiles \ {<<r, i>>}
    /\ jobOutOfOrder' = [jobOutOfOrder EXCEPT ![r] = @ \/ EarlierUnfinished(job[r], i)]
    /\ UNCHANGED <<body, pc, response, cleaned_text, selected_voice, chunks, semaphore,
                   task, taskResult, failures, outOfOrder, audio_chunks, exported,
                   outputDir, submitted, fvars>>

\* A variant of WorkerFail without the finally clause: the exception leaves
\* the temporary file behind.
WorkerFail_leaving_file(r, i) ==
    /\ pc[r] \in {"postprocess", "shutdown"}
    /\ job[r][i] = "running"
    /\ job' = [job EXCEPT ![r][i] = "failed"]
    /\ jobOutOfOrder' = [jobOutOfOrder EXCEPT ![r] = @ \/ EarlierUnfinished(job[r], i)]
    /\ UNCHANGED <<body, pc, response, cleaned_text, selected_voice, chunks, semaphore,
                   task, taskResult, failures, outOfOrder, audio_chunks, segment,
                   exported, tempFiles, outputDir, submitted, fvars>>

\* Lines 230-244: decoding, normalization or stripping raises; the
\* temporary file is removed on the way out.
WorkerFail(r, i) ==
    /\ pc[r] \in {"postprocess", "shutdown"}
    /\ job[r][i] = "running"
    /\ job' = [job EXCEPT ![r][i] = "failed"]
    /\ tempFiles' = tempFiles \ {<<r, i>>}
    /\ jobOutOfOrder' = [jobOutOfOrder EXCEPT ![r] = @ \/ EarlierUnfinished(job[r], i)]
    /\ UNCHANGED <<body, pc, response, cleaned_text, selected_voice, chunks, semaphore,
                   task, taskResult, failures, outOfOrder, audio_chunks, segment,
                   exported, outputDir, submitted, fvars>>

\* A variant of MapReturns that passes over the calls that raised.
MapReturns_skipping_failed(states) ==
    \A i \in DOMAIN states : states[i] \in {"ok", "failed"}

\* Line 256: list(executor.map(...)) reads the results in the order of the
\* chunks; it has them all once every call has returned.
MapReturns(states) == \A i \in DOMAIN states : states[i] = "ok"

\* Line 256: it raises at the first chunk, in order, whose call raised.
MapRaises(states) ==
    \E k \in DOMAIN states :
        states[k] = "failed" /\ \A j \in 1 .. k - 1 : states[j] = "ok"

\* Line 256: the iterator meets a call that raised and cancels the calls
\* that have not started; the with block then waits for the running ones.
map_raise(r) ==
    /\ pc[r] = "postprocess"
    /\ MapRaises(job[r])
    /\ job' = [job EXCEPT ![r] =
           [i \in DOMAIN @ |-> IF @[i] = "queued" THEN "cancelled" ELSE @[i]]]
    /\ pc' = [pc EXCEPT ![r] = "shutdown"]
    /\ UNCHANGED <<body, response, cleaned_text, selected_voice, chunks, semaphore, task,
                   taskResult, failures, outOfOrder, audio_chunks, segment, exported,
                   tempFiles, outputDir,
                   submitted, jobOutOfOrder, fvars>>

\* Lines 255-256 and 425-429: the pool has shut down, the exception reaches
\* the handler, which answers 500.
pool_shutdown_raise(r) ==
    /\ pc[r] = "shutdown"
    /\ Running(job[r]) = 0
    /\ response' = [response EXCEPT ![r] = ErrorResponse(500)]
    /\ pc' = [pc EXCEPT ![r] = "done"]
    /\ UNCHANGED <<body, cleaned_text, selected_voice, chunks, semaphore, task,
                   taskResult, failures, outOfOrder, audio_chunks, job, segment,
                   exported, tempFiles, outputDir,
                   submitted, jobOutOfOrder, fvars>>

\* Lines 256-287: every call has returned; the segments are joined with
\* pauses, compressed and exported to a new file of the output directory.
export_ok(r) ==
    /\ pc[r] = "postprocess"
    /\ MapReturns(job[r])
    /\ outputDir' = outputDir \cup
           {[name |-> OutputName(r), content |-> <<ArtifactOf(segment[r])>>]}
    /\ exported' = [exported EXCEPT ![r] = "ok"]
    /\ pc' = [pc EXCEPT ![r] = "exported"]
    /\ UNCHANGED <<body, response, cleaned_text, selected_voice, chunks, semaphore, task,
                   taskResult, failures, outOfOrder, audio_chunks, job, segment,
                   tempFiles,
                   submitted, jobOutOfOrder, fvars>>

\* Lines 270-287 and 425-429: compression or the export raises and the
\* handler answers 500; the encoder may leave the file it opened, empty.
export_fail(r) ==
    /\ pc[r] = "postprocess"
    /\ MapReturns(job[r])
    /\ \E left \in BOOLEAN :
           outputDir' = IF left
                        THEN outputDir \cup {[name |-> OutputName(r), content |-> <<>>]}
                        ELSE outputDir
    /\ exported' = [exported EXCEPT ![r] = "failed"]
    /\ response' = [response EXCEPT ![r] = ErrorResponse(500)]
    /\ pc' = [pc EXCEPT ![r] = "done"]
    /\ UNCHANGED <<body, cleaned_text, selected_voice, chunks, semaphore, task,
                   taskResult, failures, outOfOrder, audio_chunks, job, segment,
                   tempFiles,
                   submitted, jobOutOfOrder, fvars>>

\* The content of the file that combine_audio_segments returned the path of.
FileContent(r) ==
    (CHOOSE f \in outputDir : f.name = OutputName(r)).content

\* Lines 291-296 and 418-423: the duration is read and the file is sent.
send_file(r) ==
    /\ pc[r] = "exported"
    /\ response' = [response EXCEPT ![r] = [status |-> 200, audio |-> FileContent(r)]]
    /\ pc' = [pc EXCEPT ![r] = "done"]
    /\ UNCHANGED <<body, cleaned_text, selected_voice, chunks, semaphore, task,
                   taskResult, failures, outOfOrder, audio_chunks, job, segment,
                   exported, tempFiles, outputDir,
                   submitted, jobOutOfOrder, fvars>>

\* Lines 291-293 and 425-429: reading the exported file's header raises;
\* the handler answers 500 and the file stays.
probe_fail(r) ==
    /\ pc[r] = "exported"
    /\ response' = [response EXCEPT ![r] = ErrorResponse(500)]
    /\ pc' = [pc EXCEPT ![r] = "done"]
    /\ UNCHANGED <<body, cleaned_text, selected_voice, chunks, semaphore, task,
                   taskResult, failures, outOfOrder, audio_chunks, job, segment,
                   exported, tempFiles, outputDir,
                   submitted, jobOutOfOrder, fvars>>

\* ----------------------------------------------------------- specifications

\* The i-th lower-case letter.
Letter(i) == CHOOSE c \in Chars : ord(c) = 96 + i

\* n one-letter sentences, no two alike.
Sentences(n) == Concat([i \in 1 .. n |-> <<Letter(i), ".">>])

PlainBody(text) == [text |-> <<text>>, language |-> <<>>, voice |-> <<>>]

\* The bodies of the requests: no text field, a blank text, a text of
\* terminators only, a text of one chunk with a character reference and a
\* voice, a text of two chunks with a tag and a Tamil letter, and a text of
\* three chunks with a language.
Bodies ==
    { [text |-> <<>>, language |-> <<>>, voice |-> <<>>],
      PlainBody(<<" ", " ">>),
      PlainBody(<<"!", "!", "!">>),
      [text |-> << <<"&", "l", "t", ";", "a">> >>, language |-> <<>>,
       voice |-> <<"my-voice">>],
      PlainBody(<<" ", "<", "b", ">", "a", "!", " ", "TA_KA">>),
      [text |-> <<Sentences(3)>>, language |-> << <<"F", "R">> >>, voice |-> <<>>] }

\* The state of the handler at the arrival of the requests bodies[1], ...
Arrived(bodies) ==
    /\ body = bodies
    /\ pc = [r \in DOMAIN bodies |-> "received"]
    /\ response = [r \in DOMAIN bodies |-> NoResponse]
    /\ cleaned_text = [r \in DOMAIN bodies |-> <<>>]
    /\ selected_voice = [r \in DOMAIN bodies |-> ""]
    /\ chunks = [r \in DOMAIN bodies |-> <<>>]
    /\ semaphore = [r \in DOMAIN bodies |-> 0]
    /\ task = [r \in DOMAIN bodies |-> <<>>]
    /\ taskResult = [r \in DOMAIN bodies |-> <<>>]
    /\ failures = [r \in DOMAIN bodies |-> 0]
    /\ outOfOrder = [r \in DOMAIN bodies |-> FALSE]
    /\ audio_chunks = [r \in DOMAIN bodies |-> <<>>]
    /\ job = [r \in DOMAIN bodies |-> <<>>]
    /\ segment = [r \in DOMAIN bodies |-> <<>>]
    /\ exported = [r \in DOMAIN bodies |-> "no"]
    /\ submitted = [r \in DOMAIN bodies |-> <<>>]
    /\ jobOutOfOrder = [r \in DOMAIN bodies |-> FALSE]
    /\ tempFiles = {}
    /\ outputDir = {}

NoCall == fn = "" /\ in = <<>> /\ out = <<>> /\ out2 = <<>> /\ called = 0

\* The service with NumReqs requests handled at the same time.
Init == NoCall /\ \E bodies \in [1 .. NumReqs -> Bodies] : Arrived(bodies)

\* A request of at most MAX_CONCURRENT_TTS chunks never waits for a permit:
\* AcquireSlot is part of SynthNext, where the chunks outnumber the permits.
Next ==
    \/ \E r \in Requests : generate_tts_begin(r)
    \/ \E r \in Requests : generate_all_chunks(r)
    \/ \E r \in Requests : \E i \in DOMAIN task[r] : StreamOk(r, i)
    \/ \E r \in Requests : \E i \in DOMAIN task[r] : StreamFail(r, i)
    \/ \E r \in Requests : gather_return(r)
    \/ \E r \in Requests : gather_raise(r)
    \/ \E r \in Requests : \E i \in DOMAIN job[r] : WorkerStart(r, i)
    \/ \E r \in Requests : \E i \in DOMAIN job[r] : WorkerOk(r, i)
    \/ \E r \in Requests : \E i \in DOMAIN job[r] : WorkerFail(r, i)
    \/ \E r \in Requests : map_raise(r)
    \/ \E r \in Requests : pool_shutdown_raise(r)
    \/ \E r \in Requests : export_ok(r)
    \/ \E r \in Requests : export_fail(r)
    \/ \E r \in Requests : send_file(r)
    \/ \E r \in Requests : probe_fail(r)

Spec == Init /\ [][Next]_vars

\* One request of one chunk more than there are permits, up to the return
\* of generate_all_chunks.
InitSynth == NoCall /\ Arrived(<<PlainBody(Sentences(MAX_CONCURRENT_TTS + 1))>>)

SynthNext ==
    \/ \E r \in Requests : generate_tts_begin(r)
    \/ \E r \in Requests : generate_all_chunks(r)
    \/ \E r \in Requests : \E i \in DOMAIN task[r] : AcquireSlot(r, i)
    \/ \E r \in Requests : \E i \in DOMAIN task[r] : StreamOk(r, i)
    \/ \E r \in Requests : \E i \in DOMAIN task[r] : StreamFail(r, i)
    \/ \E r \in Requests : gather_return(r)
    \/ \E r \in Requests : gather_raise(r)

SpecSynth == InitSynth /\ [][SynthNext]_vars

\* One request more than NumReqs, which hold more chunks together than
\* there are permits, with a backend that answers every call, up to the
\* return of generate_all_chunks.
SharedReqs == NumReqs + 1

SharedChunks == (MAX_CONCURRENT_TTS + SharedReqs) \div SharedReqs

InitShared ==
    NoCall /\ Arrived([r \in 1 .. SharedReqs |-> PlainBody(Sentences(SharedChunks))])

SharedNext ==
    \/ \E r \in Requests : generate_tts_begin(r)
    \/ \E r \in Requests : generate_all_chunks(r)
    \/ \E r \in Requests : \E i \in DOMAIN task[r] : StreamOk(r, i)
    \/ \E r \in Requests : gather_return(r)

SpecShared == InitShared /\ [][SharedNext]_vars

\* The steps that the event loop and the thread pool take by themselves from
\* the call of generate_all_chunks on: every step but the backend's ending
\* or failing a stream.
OwnStep ==
    \/ \E r \in Requests : generate_all_chunks(r)
    \/ \E r \in Requests : \E i \in DOMAIN task[r] : AcquireSlot(r, i)
    \/ \E r \in Requests : gather_return(r)
    \/ \E r \in Requests : gather_raise(r)
    \/ \E r \in Requests : \E i \in DOMAIN job[r] : WorkerStart(r, i)
    \/ \E r \in Requests : \E i \in DOMAIN job[r] : WorkerOk(r, i) \/ WorkerFail(r, i)
    \/ \E r \in Requests : map_raise(r)
    \/ \E r \in Requests : pool_shutdown_raise(r)
    \/ \E r \in Requests : export_ok(r) \/ export_fail(r)
    \/ \E r \in Requests : send_file(r) \/ probe_fail(r)

\* The service of Spec, its own steps taken whenever they stay possible;
\* nothing makes the backend end a stream.
SpecFair == Init /\ [][Next]_vars /\ WF_vars(OwnStep)

\* The calls that the backend may fail in SpecDrain.
FailingCalls == {1}

DrainNext ==
    \/ \E r \in Requests : generate_tts_begin(r)
    \/ \E r \in Requests : generate_all_chunks(r)
    \/ \E r \in Requests : \E i \in DOMAIN task[r] : AcquireSlot(r, i)
    \/ \E r \in Requests : \E i \in DOMAIN task[r] : StreamOk(r, i)
    \/ \E r \in Requests : \E i \in DOMAIN task[r] \cap FailingCalls : StreamFail(r, i)
    \/ \E r \in Requests : gather_return(r)
    \/ \E r \in Requests : gather_raise(r)

\* The steps of generate_all_chunks and of the backend: the event loop runs
\* every task that is ready, and the backend ends or fails every stream.
DrainStep ==
    \/ \E r \in Requests : generate_all_chunks(r)
    \/ \E r \in Requests : \E i \in DOMAIN task[r] : AcquireSlot(r, i)
    \/ \E r \in Requests : \E i \in DOMAIN task[r] : StreamOk(r, i)
    \/ \E r \in Requests : \E i \in DOMAIN task[r] \cap FailingCalls : StreamFail(r, i)
    \/ \E r \in Requests : gather_return(r)
    \/ \E r \in Requests : gather_raise(r)

\* One request of MAX_CONCURRENT_TTS + 1 chunks up to the return of
\* generate_all_chunks, with a backend that ends every stream.
SpecDrain == InitSynth /\ [][DrainNext]_vars /\ WF_vars(DrainStep)

\* ------------------------------------------- the pure functions, applied

InitClean ==
    /\ fn = "clean_text" /\ in \in CleanInputs(MaxPieces)
    /\ out = <<>> /\ out2 = <<>> /\ called = 0
    /\ Arrived(<<>>)

InitChunk ==
    /\ fn = "smart_chunk_text" /\ in \in ChunkInputs(MaxTokens)
    /\ out = <<>> /\ out2 = <<>> /\ called = 0
    /\ Arrived(<<>>)

InitVoice ==
    /\ fn = "get_voice_for_text"
    /\ in \in VoiceTexts \X VoiceLanguages \X VoiceOverrides
    /\ out = <<>> /\ out2 = <<>> /\ called = 0
    /\ Arrived(<<>>)

CallClean ==
    /\ fn = "clean_text" /\ called = 0
    /\ out' = clean_text(in)
    /\ called' = 1
    /\ UNCHANGED <<fn, in, out2, hvars>>

CallCleanAgain ==
    /\ fn = "clean_text" /\ called = 1
    /\ out2' = clean_text(out)
    /\ called' = 2
    /\ UNCHANGED <<fn, in, out, hvars>>

CallChunk ==
    /\ fn = "smart_chunk_text" /\ called = 0
    /\ out' = smart_chunk_text(in)
    /\ called' = 1
    /\ UNCHANGED <<fn, in, out2, hvars>>

CallVoice ==
    /\ fn = "get_voice_for_text" /\ called = 0
    /\ out' = get_voice_for_text(in[1], in[2], in[3])
    /\ called' = 1
    /\ UNCHANGED <<fn, in, out2, hvars>>

\* The pure functions, each applied to every input of its bounded set.
NextClean == CallClean \/ CallCleanAgain

SpecClean == InitClean /\ [][NextClean]_vars

NextChunk == CallChunk

SpecChunk == InitChunk /\ [][NextChunk]_vars

NextVoice == CallVoice

SpecVoice == InitVoice /\ [][NextVoice]_vars

\* ------------------------------------------------------------------- claims

\* C9: clean_text is idempotent: applied to its own result, it returns that
\* result unchanged, for every input text.
C9_Idempotent == called = 2 => out2 = out

\* A character reference that unescapes to the start of a tag around a
\* letter: the first application leaves the letter, and so does the second.
C9_Witness ==
    /\ called = 2
    /\ in = <<"&", "l", "t", ";", "a", ">">>
    /\ out = <<"a">>

\* The characters that end a sentence or separate sub-parts.
Punctuation == SENTENCE_PATTERN \cup SUB_PATTERN

\* C6: every chunk of a normalized text has at most MAX_CHUNK_LENGTH
\* characters, except a chunk that is one word without whitespace longer
\* than MAX_CHUNK_LENGTH.
C6_ChunkLength ==
    called = 1 /\ fn = "smart_chunk_text" =>
        \A i \in DOMAIN out :
            \/ Len(out[i]) <= MAX_CHUNK_LENGTH
            \/ \A j \in DOMAIN out[i] : ~IsSpace(out[i][j])

\* A sub-part packed word by word leaves its second word in the
\* accumulator, and the next sub-part joins it.
C6_Witness ==
    /\ called = 1
    /\ in = Rep("b", 40) \o <<" ">> \o Rep("b", 40) \o <<",", "c">>
    /\ out = <<Rep("b", 40), Rep("b", 40) \o <<",", " ", "c">> >>

\* The words of a text: its maximal runs of characters that are neither
\* whitespace nor punctuation.
WordsOf(t) == SelectSeq(re_split(t, Whitespace \cup Punctuation), LAMBDA w : w # <<>>)

\* C7: the chunks joined with single spaces hold the words of the input
\* (punctuation set aside) in the same order, none dropped, duplicated or
\* moved; for an input without punctuation they spell the input itself.
C7_WordOrder ==
    called = 1 /\ fn = "smart_chunk_text" =>
        /\ WordsOf(Join(out, <<" ">>)) = WordsOf(in)
        /\ (\A i \in DOMAIN in : in[i] \notin Punctuation) => Join(out, <<" ">>) = in

\* A text without punctuation longer than MAX_CHUNK_LENGTH, packed word by
\* word into two chunks.
C7_Witness ==
    /\ called = 1
    /\ in = Rep("b", 40) \o <<" ">> \o Rep("b", 40) \o <<" ", "c">>
    /\ out = <<Rep("b", 40), Rep("b", 40) \o <<" ", "c">> >>

\* C8: smart_chunk_text returns at least one chunk for every non-empty
\* normalized text, and no chunk only for the empty text.
C8_NonEmpty ==
    called = 1 /\ fn = "smart_chunk_text" => (out = <<>> <=> in = <<>>)

\* The Tamil block U+0B80..U+0BFF.
InTamilBlock(c) == 2944 <= ord(c) /\ ord(c) <= 3071

\* The voice of a language, looked up without regard to case; the English
\* voice when the language is absent or not in the table.
LanguageVoice(language) ==
    IF language # <<>> /\ \E k \in DOMAIN VOICE_MAPPINGS : lower(k) = lower(language[1])
    THEN VOICE_MAPPINGS[CHOOSE k \in DOMAIN VOICE_MAPPINGS : lower(k) = lower(language[1])]
    ELSE "en-US-JennyNeural"

\* The precedence of the voices, for a given reading of "a voice is supplied".
Precedence(supplied) ==
    called = 1 /\ fn = "get_voice_for_text" =>
        LET text == in[1]
            language == in[2]
            voice == in[3]
        IN  IF supplied THEN out = voice[1]
            ELSE IF \E i \in DOMAIN text : InTamilBlock(text[i])
                 THEN out = "ta-IN-PallaviNeural"
                 ELSE out = LanguageVoice(language)

\* C10 as stated: a voice that is supplied, whatever it is, is returned
\* unchanged; otherwise Tamil text gets the Tamil voice whatever the
\* language; otherwise the voice of the language, English by default.
C10_AnyVoiceWins == Precedence(fn = "get_voice_for_text" /\ in[3] # <<>>)

\* C10 amended: a supplied voice that is not the empty string is returned
\* unchanged; with no voice or the empty string, Tamil text gets the Tamil
\* voice whatever the language; otherwise the voice of the language,
\* English by default.
C10_NonEmptyVoiceWins ==
    Precedence(fn = "get_voice_for_text" /\ in[3] # <<>> /\ in[3][1] # "")

\* The empty voice with Tamil text and French asked for: the Tamil voice.
C10_Witness ==
    /\ called = 1
    /\ in = << <<"h", "i", " ", "TA_KA">>, << <<"f", "r">> >>, <<"">> >>
    /\ out = "ta-IN-PallaviNeural"

\* The handler of request r is past the return of generate_all_chunks.
Gathered(r) == pc[r] \in {"postprocess", "shutdown", "exported", "done"}

\* C1: when every synthesis call of a request has succeeded, in whatever
\* order the calls completed, generate_all_chunks returns one audio per
\* chunk, and the i-th is the audio synthesized for the i-th chunk.
C1_ResultOrder ==
    \A r \in Requests :
        Gathered(r) /\ (\A i \in DOMAIN task[r] : task[r][i] = "done") =>
            /\ Len(audio_chunks[r]) = Len(chunks[r])
            /\ \A i \in DOMAIN chunks[r] :
                   audio_chunks[r][i] = Synthesize(chunks[r][i], selected_voice[r])

\* Three chunks whose calls did not complete in the order of the chunks.
C1_Witness ==
    \E r \in Requests :
        /\ Gathered(r)
        /\ outOfOrder[r]
        /\ Len(audio_chunks[r]) = 3

\* The synthesis calls in flight, over all requests.
RECURSIVE TotalInFlight(_)
TotalInFlight(rs) ==
    IF rs = {} THEN 0
    ELSE LET r == CHOOSE r \in rs : TRUE
         IN  InFlight(r) + TotalInFlight(rs \ {r})

\* C2: the synthesis calls in flight, summed over all the requests handled
\* at the same time, never exceed MAX_CONCURRENT_TTS.
C2_GlobalCap == TotalInFlight(Requests) <= MAX_CONCURRENT_TTS

\* C3: within one call of generate_all_chunks, whatever the number of
\* chunks, the synthesis calls that are streaming never exceed
\* MAX_CONCURRENT_TTS.
C3_PerCallCap == \A r \in Requests : InFlight(r) <= MAX_CONCURRENT_TTS

\* A call has ended, and the task that waited for a permit streams with
\* MAX_CONCURRENT_TTS calls in flight again.
C3_Witness ==
    \E r \in Requests :
        /\ Len(task[r]) > MAX_CONCURRENT_TTS
        /\ task[r][MAX_CONCURRENT_TTS + 1] = "streaming"
        /\ InFlight(r) = MAX_CONCURRENT_TTS

\* A synthesis call of request r has failed.
SynthesisFailed(r) == \E i \in DOMAIN task[r] : task[r][i] = "failed"

\* C4: once a synthesis call of a request has failed, the only response the
\* request gets is the 500 error, post-processing is never started, no file
\* of the request exists in the output directory, and no result of another
\* chunk's call is returned or used.
C4_SynthesisFailureAborts ==
    \A r \in Requests :
        SynthesisFailed(r) =>
            /\ pc[r] \in {"gather", "done"}
            /\ response[r] = IF pc[r] = "done" THEN ErrorResponse(500) ELSE NoResponse
            /\ audio_chunks[r] = <<>>
            /\ job[r] = <<>> /\ segment[r] = <<>>
            /\ exported[r] = "no"
            /\ \A f \in outputDir : f.name # OutputName(r)
            /\ \A f \in tempFiles : f[1] # r

\* One call failed, another returned its audio, and the request was
\* answered with the error.
C4_Witness ==
    \E r \in Requests :
        /\ SynthesisFailed(r)
        /\ \E i \in DOMAIN task[r] : task[r][i] = "done" /\ taskResult[r][i] # <<>>
        /\ response[r].status = 500

\* The segments of an artifact: what it holds besides the pauses.
SegmentsOf(artifact) == SelectSeq(artifact[2], LAMBDA s : s # pause)

\* C5: a request is answered with audio only if every chunk of its
\* normalized text was synthesized and post-processed and the export
\* completed, and the audio then holds exactly one segment per chunk, in
\* order; a failure at any stage is answered with an error without audio.
C5_AllOrNothing ==
    \A r \in Requests :
        /\ response[r].status = 200 =>
               /\ chunks[r] = smart_chunk_text(clean_text(strip(body[r].text[1])))
               /\ \A i \in DOMAIN task[r] : task[r][i] = "done"
               /\ \A i \in DOMAIN job[r] : job[r][i] = "ok"
               /\ exported[r] = "ok"
               /\ Len(response[r].audio) = 1
               /\ SegmentsOf(response[r].audio[1]) =
                      [i \in DOMAIN chunks[r] |->
                          process_audio_segment(
                              Synthesize(chunks[r][i], selected_voice[r]))]
        /\ response[r].status # 200 => response[r].audio = <<>>
        /\ \/ SynthesisFailed(r)
           \/ \E i \in DOMAIN job[r] : job[r][i] = "failed"
           \/ exported[r] = "failed"
           => response[r].status \in {0, 500}

\* A request of three chunks answered with its audio.
C5_Witness ==
    \E r \in Requests :
        /\ response[r].status = 200
        /\ Len(chunks[r]) = 3

\* A text of whitespace only, the empty text included.
Blank(t) == \A i \in DOMAIN t : IsSpace(t[i])

\* C11: a request without a text, or with a text that is empty once trimmed,
\* is answered with the 400 error and nothing else ever happens for it: no
\* normalization, chunking, synthesis call, post-processing or file.
C11_RejectedBeforeWork ==
    \A r \in Requests :
        body[r].text = <<>> \/ Blank(body[r].text[1]) =>
            /\ pc[r] \in {"received", "done"}
            /\ response[r] = IF pc[r] = "done" THEN ErrorResponse(400) ELSE NoResponse
            /\ cleaned_text[r] = <<>> /\ chunks[r] = <<>> /\ selected_voice[r] = ""
            /\ task[r] = <<>> /\ submitted[r] = <<>> /\ audio_chunks[r] = <<>>
            /\ job[r] = <<>> /\ segment[r] = <<>> /\ exported[r] = "no"
            /\ \A f \in outputDir : f.name # OutputName(r)
            /\ \A f \in tempFiles : f[1] # r

\* A text of two spaces, answered with the 400 error.
C11_Witness ==
    \E r \in Requests :
        /\ body[r].text = << <<" ", " ">> >>
        /\ response[r].status = 400

\* The file that combine_audio_segments exported for request r.
Exported(r) == {f \in outputDir : f.name = OutputName(r) /\ f.content # <<>>}

\* C12: in whatever order the post-processing calls finish, the k-th
\* segment of the exported track is the post-processed audio of chunk k.
C12_AssemblyOrder ==
    \A r \in Requests :
        exported[r] = "ok" =>
            \A f \in Exported(r) :
                SegmentsOf(f.content[1]) =
                    [k \in DOMAIN audio_chunks[r] |->
                        process_audio_segment(audio_chunks[r][k])]

\* Three chunks exported, a later one post-processed before an earlier one.
C12_Witness ==
    \E r \in Requests :
        /\ exported[r] = "ok"
        /\ Exported(r) # {}
        /\ jobOutOfOrder[r]
        /\ Len(audio_chunks[r]) = 3

\* C13: when generate_all_chunks has returned or raised, no synthesis call
\* of the request is pending: each has completed or failed.
C13_NoPendingAtReturn ==
    \A r \in Requests :
        Gathered(r) => \A i \in DOMAIN task[r] : task[r][i] \in {"done", "failed"}

\* C14: once the failure of a synthesis call has been observed and the
\* request answered, every sibling call has been cancelled: none is in
\* flight or waiting for a permit, and every permit has been given back.
C14_SiblingsCancelled ==
    \A r \in Requests :
        SynthesisFailed(r) /\ pc[r] = "done" =>
            /\ InFlight(r) = 0
            /\ \A i \in DOMAIN task[r] : task[r][i] # "waiting"
            /\ semaphore[r] = SemaphoreValue

\* Request r holds permits and none of its calls has failed.
HoldsSlots(r) == r \in Requests /\ InFlight(r) > 0 /\ ~SynthesisFailed(r)

\* C15: every synthesis call that has taken a permit eventually gives it
\* back, the backend ending its stream or not: a request that holds permits
\* eventually holds none.
C15_SlotEventuallyReleased ==
    \A r \in 1 .. NumReqs : HoldsSlots(r) ~> ~HoldsSlots(r)

\* C16: no post-processing call of a request exists, queued or started,
\* while a synthesis call of the request has not completed: the two phases
\* of a request do not overlap.
C16_PhasesDisjoint ==
    \A r \in Requests :
        job[r] # <<>> => \A i \in DOMAIN task[r] : task[r][i] = "done"

\* A post-processing call runs, every synthesis call of the three done.
C16_Witness ==
    \E r \in Requests :
        /\ Len(task[r]) = 3
        /\ \E i \in DOMAIN job[r] : job[r][i] = "running"
        /\ \A i \in DOMAIN task[r] : task[r][i] = "done"

\* The track that the exported file holds, before compression.
Assembled(f) == f.content[1][2]

\* The segments of request r, post-processed, in the order of the chunks.
Processed(r) == [k \in DOMAIN audio_chunks[r] |-> process_audio_segment(audio_chunks[r][k])]

Pauses(track) == Cardinality({k \in DOMAIN track : track[k] = pause})

\* C17: the assembled track of n segments is segment 1, pause, segment 2,
\* pause, ..., segment n: 2n - 1 clips, the odd ones the segments in order,
\* the even ones the 200 ms pause, so n - 1 pauses, none before the first
\* or after the last segment and none at all for one segment.
C17_PausesBetween ==
    \A r \in Requests :
        exported[r] = "ok" =>
            \A f \in Exported(r) :
                LET n == Len(audio_chunks[r])
                    track == Assembled(f)
                IN  /\ n >= 1 => Len(track) = 2 * n - 1
                    /\ \A k \in DOMAIN track :
                           IF k % 2 = 1 THEN track[k] = Processed(r)[(k + 1) \div 2]
                                        ELSE track[k] = pause
                    /\ n >= 1 => Pauses(track) = n - 1
                    /\ n >= 1 => track[1] # pause /\ track[Len(track)] # pause
                    /\ pause = <<"silence", "200ms">>

\* A track of three segments is exported, and a track of one.
C17_Witness ==
    \E r \in Requests :
        /\ exported[r] = "ok"
        /\ \E f \in Exported(r) : Len(audio_chunks[r]) = 3 /\ Pauses(Assembled(f)) = 2

C17_WitnessSingle ==
    \E r \in Requests :
        /\ exported[r] = "ok"
        /\ \E f \in Exported(r) : Len(audio_chunks[r]) = 1 /\ Assembled(f) = Processed(r)

\* The number of backend calls that request r has begun for chunk i.
Submissions(r, i) ==
    Cardinality({k \in DOMAIN submitted[r] : submitted[r][k][1] = i})

\* C18: a request begins at most one backend call per chunk, each with the
\* text of its chunk; a failed call is not begun again; a request answered
\* with 200 has begun exactly one call for every chunk.
C18_SubmittedOnce ==
    \A r \in Requests :
        /\ \A k \in DOMAIN submitted[r] :
               /\ submitted[r][k][1] \in DOMAIN chunks[r]
               /\ submitted[r][k][2] = chunks[r][submitted[r][k][1]]
        /\ \A i \in DOMAIN chunks[r] : Submissions(r, i) <= 1
        /\ \A i \in DOMAIN task[r] : task[r][i] = "failed" => Submissions(r, i) = 1
        /\ response[r].status = 200 =>
               \A i \in DOMAIN chunks[r] : Submissions(r, i) = 1

\* A request of three chunks is answered with 500 after one of its calls
\* failed, three calls begun in all.
C18_Witness ==
    \E r \in Requests :
        /\ response[r].status = 500
        /\ \E i \in DOMAIN task[r] : task[r][i] = "failed"
        /\ Len(submitted[r]) = 3

\* A request of three chunks is answered with 200.
C18_WitnessSuccess ==
    \E r \in Requests : response[r].status = 200 /\ Len(submitted[r]) = 3

\* The call for chunk MAX_CONCURRENT_TTS + 1 waits for a permit.
LastWaits ==
    /\ Len(task[1]) > MAX_CONCURRENT_TTS
    /\ task[1][MAX_CONCURRENT_TTS + 1] = "waiting"

\* C19: in a call of generate_all_chunks for more chunks than permits, when
\* the backend ends every stream, the permits held and the permits free
\* always add up to the semaphore's value (a call gives its permit back
\* when it returns and when it fails), the call that waits for a permit
\* gets one unless a call has failed, and generate_all_chunks returns or
\* raises; when it returns, it returns one result per chunk.
C19_Terminates ==
    /\ [](\A r \in Requests :
              task[r] # <<>> => semaphore[r] + InFlight(r) = SemaphoreValue)
    /\ [](pc[1] = "postprocess" => Len(audio_chunks[1]) = MAX_CONCURRENT_TTS + 1)
    /\ LastWaits ~> (~LastWaits \/ SynthesisFailed(1))
    /\ (pc[1] = "gather") ~> Gathered(1)

\* generate_all_chunks has returned the results of sixteen chunks, the
\* sixteenth call begun after the fifteen others.
C19_Witness ==
    /\ pc[1] = "postprocess"
    /\ Len(audio_chunks[1]) = MAX_CONCURRENT_TTS + 1
    /\ Len(submitted[1]) = MAX_CONCURRENT_TTS + 1
    /\ submitted[1][MAX_CONCURRENT_TTS + 1][1] = MAX_CONCURRENT_TTS + 1

\* The first call has failed and the call that waited streams on the permit
\* that the failed call gave back.
C19_WitnessFailure ==
    /\ Len(task[1]) = MAX_CONCURRENT_TTS + 1
    /\ task[1][1] = "failed"
    /\ task[1][MAX_CONCURRENT_TTS + 1] = "streaming"
    /\ \A i \in 2 .. MAX_CONCURRENT_TTS : task[1][i] = "streaming"

\* C20: a temporary file exists only while the process_audio_segment call
\* that created it runs: it is gone when the call has returned or raised;
\* and once combine_audio_segments has returned or raised, no temporary
\* file of the request remains.
C20_TempFilesRemoved ==
    /\ \A f \in tempFiles :
           /\ f[1] \in Requests
           /\ f[2] \in DOMAIN job[f[1]]
           /\ job[f[1]][f[2]] = "running"
    /\ \A r \in Requests :
           pc[r] \in {"exported", "done"} => \A f \in tempFiles : f[1] # r

\* A process_audio_segment call has raised, another has returned,
\* combine_audio_segments has raised and the request is answered with 500.
C20_Witness ==
    \E r \in Requests :
        /\ pc[r] = "done"
        /\ response[r].status = 500
        /\ \E i \in DOMAIN job[r] : job[r][i] = "failed"
        /\ \E i \in DOMAIN job[r] : job[r][i] = "ok"
        /\ \A f \in tempFiles : f[1] # r

=============================================================================
